---- MODULE Spec2Model ----
(***************************************************************************)
(* stactools-palsar: derivation of STAC Items and Collections for ALOS     *)
(* PALSAR mosaics and Forest/Non-Forest rasters                            *)
(* (src/src/stactools/palsar/stac.py).                                     *)
(*                                                                         *)
(* A Python str is modelled as a sequence of one-character strings, so     *)
(* that basename, split, rsplit, splitext, endswith, indexing and the      *)
(* regular expression act on characters as they do in the code.            *)
(***************************************************************************)
EXTENDS Integers, Sequences, FiniteSets, TLC

(***************************************************************************)
(* Python str and os.path primitives used by stac.py                       *)
(***************************************************************************)

\* s.endswith(suf)
EndsWith(s, suf) ==
    /\ Len(suf) <= Len(s)
    /\ SubSeq(s, Len(s) - Len(suf) + 1, Len(s)) = suf

\* str.find(c) + 1 : position of the first c, 0 when there is none
FirstIndexOf(s, c) ==
    IF \E i \in 1..Len(s) : s[i] = c
    THEN CHOOSE i \in 1..Len(s) : s[i] = c /\ \A j \in 1..(i - 1) : s[j] # c
    ELSE 0

\* str.rfind(c) + 1 : position of the last c, 0 when there is none
LastIndexOf(s, c) ==
    IF \E i \in 1..Len(s) : s[i] = c
    THEN CHOOSE i \in 1..Len(s) : s[i] = c /\ \A j \in (i + 1)..Len(s) : s[j] # c
    ELSE 0

\* os.path.basename(p): what follows the last "/"
Basename(p) == SubSeq(p, LastIndexOf(p, "/") + 1, Len(p))

\* s.split(c): every separator splits, empty tokens are kept
RECURSIVE Split(_, _)
Split(s, c) ==
    LET i == FirstIndexOf(s, c)
    IN  IF i = 0 THEN <<s>>
        ELSE <<SubSeq(s, 1, i - 1)>> \o Split(SubSeq(s, i + 1, Len(s)), c)

\* s.rsplit(c, 1): at most one split, at the last separator
RSplit1(s, c) ==
    LET i == LastIndexOf(s, c)
    IN  IF i = 0 THEN <<s>>
        ELSE <<SubSeq(s, 1, i - 1), SubSeq(s, i + 1, Len(s))>>

\* sep.join(tokens)
RECURSIVE Join(_, _)
Join(tokens, sep) ==
    IF Len(tokens) = 0 THEN <<>>
    ELSE IF Len(tokens) = 1 THEN tokens[1]
    ELSE tokens[1] \o sep \o Join(Tail(tokens), sep)

\* os.path.splitext(p)[0]: the extension starts at the last "." of the last
\* path component, unless only dots precede it in that component
SplitextRoot(p) ==
    LET sepIndex == LastIndexOf(p, "/")
        dotIndex == LastIndexOf(p, ".")
    IN  IF /\ dotIndex > sepIndex
           /\ \E k \in (sepIndex + 1)..(dotIndex - 1) : p[k] # "."
        THEN SubSeq(p, 1, dotIndex - 1)
        ELSE p

\* os.path.join(a, b) for a non-empty a and a relative b
PathJoin(a, b) ==
    IF Len(b) > 0 /\ b[1] = "/" THEN b
    ELSE IF Len(a) = 0 \/ a[Len(a)] = "/" THEN a \o b
    ELSE a \o <<"/">> \o b

DigitChars == <<"0", "1", "2", "3", "4", "5", "6", "7", "8", "9">>

DigitValue(c) == (CHOOSE d \in 1..10 : DigitChars[d] = c) - 1

\* int(s) for a string of decimal digits
RECURSIVE IntOf(_)
IntOf(s) ==
    IF Len(s) = 0 THEN 0
    ELSE 10 * IntOf(SubSeq(s, 1, Len(s) - 1)) + DigitValue(s[Len(s)])

(***************************************************************************)
(* String literals of stac.py                                              *)
(***************************************************************************)
K_HH == <<"H", "H">>
K_HV == <<"H", "V">>
K_VH == <<"V", "H">>
K_VV == <<"V", "V">>
K_C == <<"C">>
K_date == <<"d", "a", "t", "e">>
K_linci == <<"l", "i", "n", "c", "i">>
K_mask == <<"m", "a", "s", "k">>
K_metadata == <<"m", "e", "t", "a", "d", "a", "t", "a">>
K_sl_HH == <<"s", "l", "_">> \o K_HH
K_sl_HV == <<"s", "l", "_">> \o K_HV
K_sl_VH == <<"s", "l", "_">> \o K_VH
K_sl_VV == <<"s", "l", "_">> \o K_VV
Ext_tif == <<".", "t", "i", "f">>
Ext_xml == <<".", "x", "m", "l">>
Suffix_C_tif == <<"_", "C">> \o Ext_tif
Suffix_FNF == <<"_", "F", "N", "F">>
Suffix_MOS == <<"_", "M", "O", "S">>
Century == <<"2", "0">>
StartOfYear == <<"-", "0", "1", "-", "0", "1", "T", "0", "0", ":", "0", "0", ":", "0", "0", "Z">>
EndOfYear == <<"-", "1", "2", "-", "3", "1", "T", "2", "3", ":", "5", "9", ":", "5", "9", "Z">>

(***************************************************************************)
(* stactools.palsar.constants (the module is imported as co)               *)
(***************************************************************************)
ALOS_PALSAR_PLATFORMS == <<"ALOS", "ALOS-2">>
ALOS_PALSAR_INSTRUMENTS == <<"PALSAR", "PALSAR-2">>
ALOS_DUAL_POLARIZATIONS == <<K_HH, K_HV>>
ALOS_QUAD_POLARIZATIONS == <<K_HH, K_HV, K_VH, K_VV>>
ALOS_PALSAR_EPSG == 4326

\* co.ALOS_BANDS: band key -> band description (its data_type is kept)
BandKeys == {K_HH, K_HV, K_VH, K_VV, K_linci, K_mask, K_date, K_C}

ALOS_BANDS ==
    [k \in BandKeys |->
        IF k \in {K_linci, K_mask, K_C} THEN "uint8" ELSE "uint16"]

(***************************************************************************)
(* FILENAME_PARTS: the compiled pattern and re.match                       *)
(***************************************************************************)
UpperChars ==
    {"A", "B", "C", "D", "E", "F", "G", "H", "I", "J", "K", "L", "M",
     "N", "O", "P", "Q", "R", "S", "T", "U", "V", "W", "X", "Y", "Z"}

LowerChars ==
    {"a", "b", "c", "d", "e", "f", "g", "h", "i", "j", "k", "l", "m",
     "n", "o", "p", "q", "r", "s", "t", "u", "v", "w", "x", "y", "z"}

\* \w on the characters of the model: letters, digits and the underscore
WordChars == UpperChars \cup LowerChars \cup {DigitChars[d] : d \in 1..10} \cup {"_"}

\* the five groups, in order: the set each character class accepts and how
\* many characters the group takes.  Inside a class "|" is a literal.
ModeClass == {"F", "|", "U"}
PolarizationsClass == {"D", "|", "Q"}
OrbitClass == {"A", "|", "D"}
ObservationClass == {"R", "|", "L"}

\* FILENAME_PARTS.match(s) is not None: the pattern is tried at the start of
\* s and nothing anchors its end
PartsMatch(s) ==
    /\ Len(s) >= 6
    /\ s[1] \in ModeClass
    /\ s[2] \in WordChars
    /\ s[3] \in WordChars
    /\ s[4] \in PolarizationsClass
    /\ s[5] \in OrbitClass
    /\ s[6] \in ObservationClass

\* palsar_parts.groupdict()
GroupDict(s) ==
    [MODE |-> SubSeq(s, 1, 1),
     BEAM_NUMBER |-> SubSeq(s, 2, 3),
     POLARIZATIONS |-> SubSeq(s, 4, 4),
     ORBIT |-> SubSeq(s, 5, 5),
     OBSERVATION |-> SubSeq(s, 6, 6)]

(***************************************************************************)
(* create_item_from_href: the grouping of sibling assets                   *)
(***************************************************************************)
NoError == "none"

\* kinds, after the optional extend for "quad" mode
Kinds(filename_suffix) ==
    IF filename_suffix[4] = "Q"
    THEN <<K_date, K_linci, K_mask, K_sl_HH, K_sl_HV, K_sl_VH, K_sl_VV>>
    ELSE <<K_date, K_linci, K_mask, K_sl_HH, K_sl_HV>>

\* kind.split("_")[-1]
KindKey(kind) == LET t == Split(kind, "_") IN t[Len(t)]

\* f"{prefix}/{filename_prefix}_{kind}_{filename_suffix}.tif"
SiblingHref(prefix, filename_prefix, kind, filename_suffix) ==
    prefix \o <<"/">> \o filename_prefix \o <<"_">> \o kind \o <<"_">>
        \o filename_suffix \o Ext_tif

\* prefix = asset_href.rsplit("/", 1)[0]
HrefPrefix(asset_href) == RSplit1(asset_href, "/")[1]

\* the dict comprehension over kinds, then assets_hrefs["metadata"]
SiblingAssets(asset_href, filename_prefix, filename_suffix) ==
    LET prefix == HrefPrefix(asset_href)
        kinds == Kinds(filename_suffix)
    IN  [i \in 1..Len(kinds) |->
            [key |-> KindKey(kinds[i]),
             value |-> SiblingHref(prefix, filename_prefix, kinds[i], filename_suffix)]]
        \o <<[key |-> K_metadata, value |-> asset_href]>>

\* the body of create_item_from_href up to the call of create_item:
\* the error it raises, or the mapping it hands to create_item
GroupAssets(asset_href) ==
    LET filename == Basename(asset_href)
        parts == RSplit1(filename, "_")
    IN  IF EndsWith(filename, Suffix_C_tif)
        THEN [err |-> NoError, assets_hrefs |-> <<[key |-> K_C, value |-> asset_href]>>]
        ELSE IF EndsWith(filename, Ext_xml)
        THEN IF Len(parts) # 2
             THEN [err |-> "ValueError: not enough values to unpack", assets_hrefs |-> <<>>]
             ELSE LET filename_suffix == SplitextRoot(parts[2])
                  IN  IF Len(filename_suffix) < 4
                      THEN [err |-> "IndexError: string index out of range",
                            assets_hrefs |-> <<>>]
                      ELSE [err |-> NoError,
                            assets_hrefs |-> SiblingAssets(asset_href, parts[1], filename_suffix)]
        ELSE [err |-> "ValueError: Unknown type", assets_hrefs |-> <<>>]

(***************************************************************************)
(* create_item: the pieces of its body                                     *)
(***************************************************************************)
\* year from which the data is PALSAR-2 (two-digit year, as in the filename)
PlatformYear == 15
\* year from which the nodata value of some bands is 1
NodataYear == 17
\* the EPSG code every ALOS raster must have
RequiredEpsg == 4326

\* the general parameters read from the first asset: the error raised by an
\* index out of range, or the locals asset_href, filename, year, is_fnf and
\* item_root
FirstAssetParams(hrefs) ==
    LET first_href == hrefs[1].value
        filename == Basename(SplitextRoot(first_href))
        base_tokens == Split(Basename(first_href), "_")
        tokens == Split(filename, "_")
        n == Len(tokens)
    IN  IF Len(base_tokens) < 2 \/ n < 3
        THEN [err |-> "IndexError: list index out of range"]
        ELSE [err |-> NoError,
              asset_href |-> first_href,
              filename |-> filename,
              year |-> base_tokens[2],
              is_fnf |-> (tokens[3] = K_C),
              item_root |->
                  IF tokens[3] = K_C
                  THEN Join(SubSeq(base_tokens, 1, 2), <<"_">>)
                  ELSE Join(SubSeq(tokens, 1, n - 2) \o <<tokens[n]>>, <<"_">>)]

\* dataset.crs.to_epsg() != 4326
CrsRejected_Equal(epsg) == epsg = RequiredEpsg

CrsRejected(epsg) == epsg # RequiredEpsg

PlatformIndex_After(year) == IF IntOf(year) > PlatformYear THEN 1 ELSE 0

\* index into co.ALOS_PALSAR_PLATFORMS and co.ALOS_PALSAR_INSTRUMENTS
\* (0-based, as in the code)
PlatformIndex(year) == IF IntOf(year) >= PlatformYear THEN 1 ELSE 0

\* nodata_by_band.get(key, 0)
NodataByBand(key) ==
    IF key \in {K_HH, K_HV, K_linci, K_date} THEN 1
    ELSE IF key \in {K_mask, K_C} THEN 0
    ELSE 0

Nodata_2019(key, year) == IF IntOf(year) >= 19 THEN NodataByBand(key) ELSE 0

\* the nodata value of a band that has an entry in co.ALOS_BANDS
Nodata(key, year) == IF IntOf(year) >= NodataYear THEN NodataByBand(key) ELSE 0

\* sar.observation_direction
ObservationDirectionOf(m) == IF m.OBSERVATION = <<"L">> THEN "left" ELSE "right"

PolarizationsOf_Swapped(m) ==
    IF m.POLARIZATIONS = <<"Q">> THEN ALOS_DUAL_POLARIZATIONS
    ELSE ALOS_QUAD_POLARIZATIONS

\* sar.polarizations
PolarizationsOf(m) ==
    IF m.POLARIZATIONS = <<"D">> THEN ALOS_DUAL_POLARIZATIONS
    ELSE ALOS_QUAD_POLARIZATIONS

\* sat.orbit_state
OrbitStateOf(m) == IF m.ORBIT = <<"A">> THEN "ascending" ELSE "descending"

\* the band-code segment handed to FILENAME_PARTS.match
BandCodeSegment(filename) == LET t == Split(filename, "_") IN t[Len(t)]

\* one pass of the loop over assets_hrefs.items(): the asset added under key
AssetOf(key, value, root, is_fnf, year) ==
    LET href == IF Len(root) > 0 THEN PathJoin(root, Basename(value)) ELSE value
        is_xml == EndsWith(href, Ext_xml)
    IN  [key |-> key,
         href |-> href,
         media_type |-> IF is_xml THEN "XML" ELSE "COG",
         roles |-> IF is_xml THEN <<"metadata">> ELSE <<"data">>,
         title |-> IF is_fnf THEN <<"F", "N", "F">> ELSE key,
         bands |->
             IF ~is_xml /\ key \in DOMAIN ALOS_BANDS
             THEN <<[nodata |-> Nodata(key, year), data_type |-> ALOS_BANDS[key]]>>
             ELSE <<>>,
         classes |->
             IF is_xml THEN "none"
             ELSE IF key = K_C THEN "ALOS_FNF_CLASSIFICATION_CLASSES"
             ELSE IF key = K_mask THEN "ALOS_MASK_CLASSIFICATION_CLASSES"
             ELSE "none"]

\* Item(id=..., properties=..., stac_extensions=[]) with its collection link;
\* the fields set by later statements are still empty
NewItem(p) ==
    [id |-> p.item_root \o (IF p.is_fnf THEN Suffix_FNF ELSE Suffix_MOS),
     title |-> p.item_root \o (IF p.is_fnf THEN Suffix_FNF ELSE Suffix_MOS),
     description |->
         IF p.is_fnf THEN "Forest/Non-Forest Classification" ELSE "Annual PALSAR Mosaic",
     start_datetime |-> Century \o p.year \o StartOfYear,
     end_datetime |-> Century \o p.year \o EndOfYear,
     datetime |-> Century \o p.year \o StartOfYear,
     collection_id |-> IF p.is_fnf THEN "alos-fnf-mosaic" ELSE "alos-palsar-mosaic",
     platform |-> "",
     instruments |-> <<>>,
     proj_epsg |-> 0,
     instrument_mode |-> <<>>,
     observation_direction |-> "",
     polarizations |-> <<>>,
     orbit_state |-> "",
     beam_number |-> <<>>,
     number_of_polarizations |-> <<>>,
     assets |-> <<>>]

(***************************************************************************)
(* create_collection                                                       *)
(***************************************************************************)
\* the keys of the summaries dict
SummaryKeys(product) ==
    IF product = "FNF"
    THEN {"platform", "instruments"}
    ELSE {"platform", "instruments", "sar:observation_direction",
          "sar:instrument_mode", "sar:polarizations", "sat:orbit_state",
          "palsar:number_of_polarizations"}

\* the Collection returned for a selector
CollectionOf(product) ==
    IF product = "FNF"
    THEN [id |-> "alos-fnf-mosaic",
          title |-> "ALOS Forest/Non-Forest Annual Mosaic",
          extent |-> "ALOS_FNF_TEMPORAL_EXTENT",
          summaries |-> SummaryKeys(product),
          item_assets |-> "ALOS_FNF_ASSETS",
          version |-> "ALOS_FNF_REVISION",
          links |-> "ALOS_FNF_LINKS"]
    ELSE [id |-> "alos-palsar-mosaic",
          title |-> "ALOS PALSAR Annual Mosaic",
          extent |-> "ALOS_MOS_TEMPORAL_EXTENT",
          summaries |-> SummaryKeys(product),
          item_assets |-> "ALOS_MOS_ASSETS",
          version |-> "ALOS_MOS_REVISION",
          links |-> "ALOS_MOS_LINKS"]

(***************************************************************************)
(* Inputs                                                                  *)
(***************************************************************************)
\* deepest directory an input path lies in (0: a bare filename)
MaxDirDepth == 1
\* years before PlatformYear and after NodataYear that are tried
YearsBefore == 1
YearsAfter == 1
\* most characters that follow a six-character band code
MaxTail == 1

RECURSIVE DirOfDepth(_)
DirOfDepth(n) == IF n = 0 THEN <<>> ELSE <<"d", "/">> \o DirOfDepth(n - 1)

Dirs == {DirOfDepth(n) : n \in 0..MaxDirDepth}

Tile == <<"N", "0", "5", "E", "1", "0", "0">>

\* the two-digit token of a year of this century
TwoDigits(y) == <<DigitChars[(y \div 10) + 1], DigitChars[(y % 10) + 1]>>

YearTokens == {TwoDigits(y) : y \in (PlatformYear - YearsBefore)..(NodataYear + YearsAfter)}

\* band codes of the filename convention
ValidCodes ==
    {<<m, "0", "2", p, o, s>> :
        m \in {"F", "U"}, p \in {"D", "Q"}, o \in {"A", "D"}, s \in {"R", "L"}}

Code_F02DAR == <<"F", "0", "2", "D", "A", "R">>
Code_F02QAR == <<"F", "0", "2", "Q", "A", "R">>

RECURSIVE TailOfLen(_)
TailOfLen(n) == IF n = 0 THEN <<>> ELSE <<"X">> \o TailOfLen(n - 1)

\* codes outside the convention: one character replaced, characters
\* appended, characters missing
OtherCodes ==
    {[Code_F02DAR EXCEPT ![i] = c] : i \in 1..6, c \in {"|", "X", "-"}}
    \cup {c \o TailOfLen(n) : c \in {Code_F02DAR, Code_F02QAR}, n \in 1..MaxTail}
    \cup {SubSeq(Code_F02DAR, 1, n) : n \in 0..5}

\* <tile>_<year>_<code>.xml
MetadataName(year, code) == Tile \o <<"_">> \o year \o <<"_">> \o code \o Ext_xml

\* <tile>_<year>_C.tif
FnfName(year) == Tile \o <<"_">> \o year \o Suffix_C_tif

\* file names create_item_from_href is called with
HrefNames ==
    {MetadataName(y, c) : y \in YearTokens, c \in ValidCodes \cup OtherCodes}
    \cup {FnfName(y) : y \in YearTokens}
    \cup {<<"x">> \o Suffix_C_tif, <<"m", "e", "t", "a">> \o Ext_xml,
          Tile \o <<"_", "1", "5", "_">> \o Code_F02DAR \o <<".", "t", "x", "t">>}

\* the mapping with the entry at position k moved to the front
MoveToFront(hrefs, k) ==
    <<hrefs[k]>> \o SubSeq(hrefs, 1, k - 1) \o SubSeq(hrefs, k + 1, Len(hrefs))

\* mappings create_item is called with directly: those of the filename
\* convention, with any raster entry first
DirectMappings ==
    LET names == {MetadataName(y, c) :
                      y \in YearTokens, c \in {Code_F02DAR, Code_F02QAR} \cup OtherCodes}
                 \cup {FnfName(y) : y \in YearTokens}
        grouped == {GroupAssets(DirOfDepth(MaxDirDepth) \o f) : f \in names}
        ok == {g.assets_hrefs : g \in {h \in grouped : h.err = NoError}}
    IN  UNION {{MoveToFront(a, k) : k \in {j \in 1..Len(a) : a[j].key # K_metadata}} :
                   a \in ok}

Selectors == {"FNF", "MOS", "fnf", "XYZ", ""}

(***************************************************************************)
(* State                                                                   *)
(***************************************************************************)
VARIABLES
    call,          \* the function the caller invokes
    asset_href,    \* argument of create_item_from_href
    assets_hrefs,  \* argument of create_item: sequence of (key, value) entries
    root_href,     \* argument of create_item
    crs,           \* dataset.crs.to_epsg() of the raster that is opened
    product,       \* argument of create_collection
    pc,            \* position in the call
    params,        \* locals of create_item read from the first asset
    item,          \* <<>> until Item(...) is constructed, then <<the item>>
    err,           \* the exception raised, NoError when none
    result         \* <<>> until the call returns, then <<the returned value>>

vars == <<call, asset_href, assets_hrefs, root_href, crs, product, pc, params, item, err,
          result>>

NoParams == [err |-> NoError]

Init ==
    /\ params = NoParams
    /\ item = <<>>
    /\ err = NoError
    /\ result = <<>>
    /\ \/ /\ call = "create_item_from_href"
          /\ pc = "create_item_from_href"
          /\ asset_href \in {d \o f : d \in Dirs, f \in HrefNames}
          /\ assets_hrefs = <<>>
          /\ root_href = <<>>
          /\ crs \in {RequiredEpsg, 3857}
          /\ product = ""
       \/ /\ call = "create_item"
          /\ pc = "create_item"
          /\ asset_href = <<>>
          /\ assets_hrefs \in DirectMappings
          /\ root_href \in {<<>>, <<"r">>}
          /\ crs \in {RequiredEpsg, 3857}
          /\ product = ""
       \/ /\ call = "create_collection"
          /\ pc = "create_collection"
          /\ asset_href = <<>>
          /\ assets_hrefs = <<>>
          /\ root_href = <<>>
          /\ crs = RequiredEpsg
          /\ product \in Selectors

(***************************************************************************)
(* Operations                                                              *)
(***************************************************************************)
Raise(e) ==
    /\ err' = e
    /\ pc' = "raised"

\* create_item_from_href, up to its call of create_item
CreateItemFromHref ==
    /\ pc = "create_item_from_href"
    /\ LET g == GroupAssets(asset_href)
       IN  IF g.err # NoError
           THEN /\ Raise(g.err)
                /\ UNCHANGED assets_hrefs
           ELSE /\ assets_hrefs' = g.assets_hrefs
                /\ pc' = "create_item"
                /\ UNCHANGED err
    /\ UNCHANGED <<call, asset_href, root_href, crs, product, params, item, result>>

\* create_item: the general parameters from the first asset
ReadFirstAsset ==
    /\ pc = "create_item"
    /\ LET p == FirstAssetParams(assets_hrefs)
       IN  IF p.err # NoError
           THEN /\ Raise(p.err)
                /\ UNCHANGED params
           ELSE /\ params' = p
                /\ pc' = "open"
                /\ UNCHANGED err
    /\ UNCHANGED <<call, asset_href, assets_hrefs, root_href, crs, product, item, result>>

\* create_item: the raster is opened and its CRS checked
OpenRaster ==
    /\ pc = "open"
    /\ IF CrsRejected(crs)
       THEN Raise("ValueError: not EPSG:4326")
       ELSE /\ pc' = "item"
            /\ UNCHANGED err
    /\ UNCHANGED <<call, asset_href, assets_hrefs, root_href, crs, product, params, item,
                   result>>

\* create_item: the Item is constructed and linked to its collection
ConstructItem ==
    /\ pc = "item"
    /\ item' = <<NewItem(params)>>
    /\ pc' = "platform"
    /\ UNCHANGED <<call, asset_href, assets_hrefs, root_href, crs, product, params, err,
                   result>>

\* create_item: platform, instruments and the projection attributes
SetPlatform ==
    /\ pc = "platform"
    /\ item' = <<[item[1] EXCEPT
                    !.platform = ALOS_PALSAR_PLATFORMS[PlatformIndex(params.year) + 1],
                    !.instruments =
                        <<ALOS_PALSAR_INSTRUMENTS[PlatformIndex(params.year) + 1]>>,
                    !.proj_epsg = ALOS_PALSAR_EPSG]>>
    /\ pc' = "sar"
    /\ UNCHANGED <<call, asset_href, assets_hrefs, root_href, crs, product, params, err,
                   result>>

\* create_item: the SAR and satellite fields of a mosaic, from the band code
SetSarFields ==
    /\ pc = "sar"
    /\ IF item[1].collection_id # "alos-palsar-mosaic"
       THEN /\ pc' = "assets"
            /\ UNCHANGED <<item, err, params>>
       ELSE LET seg == BandCodeSegment(params.filename)
                m == GroupDict(seg)
            IN  IF ~PartsMatch(seg)
                THEN /\ Raise("ValueError: doesn't match the expected pattern")
                     /\ UNCHANGED <<item, params>>
                ELSE /\ params' = ("m" :> m) @@ params
                     /\ item' = <<[item[1] EXCEPT
                                     !.instrument_mode = m.MODE,
                                     !.observation_direction = ObservationDirectionOf(m),
                                     !.polarizations = PolarizationsOf(m),
                                     !.orbit_state = OrbitStateOf(m),
                                     !.beam_number = m.BEAM_NUMBER,
                                     !.number_of_polarizations = m.POLARIZATIONS]>>
                     /\ pc' = "assets"
                     /\ UNCHANGED err
    /\ UNCHANGED <<call, asset_href, assets_hrefs, root_href, crs, product, result>>

\* create_item: the loop over the assets, and the return of the item
AddAssets ==
    /\ pc = "assets"
    /\ LET done == [item[1] EXCEPT
                      !.assets =
                          [i \in 1..Len(assets_hrefs) |->
                              AssetOf(assets_hrefs[i].key, assets_hrefs[i].value,
                                      root_href, params.is_fnf, params.year)]]
       IN  /\ item' = <<done>>
           /\ result' = <<done>>
    /\ pc' = "returned"
    /\ UNCHANGED <<call, asset_href, assets_hrefs, root_href, crs, product, params, err>>

\* create_collection
CreateCollection ==
    /\ pc = "create_collection"
    /\ result' = <<CollectionOf(product)>>
    /\ pc' = "returned"
    /\ UNCHANGED <<call, asset_href, assets_hrefs, root_href, crs, product, params, item,
                   err>>

Next ==
    \/ CreateItemFromHref
    \/ ReadFirstAsset
    \/ OpenRaster
    \/ ConstructItem
    \/ SetPlatform
    \/ SetSarFields
    \/ AddAssets
    \/ CreateCollection

Spec == Init /\ [][Next]_vars

(***************************************************************************)
(* Properties                                                              *)
(***************************************************************************)
\* a call of create_item_from_href or create_item has returned its Item
ItemReturned == call # "create_collection" /\ pc = "returned"

\* the platform statements of create_item have run
PlatformSet == call # "create_collection" /\ pc \in {"sar", "assets", "returned"}

AssetKeys(assets) == {assets[i].key : i \in 1..Len(assets)}

Path_N05E100_15_F02DAR_xml == Tile \o <<"_", "1", "5", "_">> \o Code_F02DAR \o Ext_xml

\* os.path.dirname(p)
ParentDir(p) == SubSeq(p, 1, LastIndexOf(p, "/") - 1)

\* C1: whenever create_item has set the platform, a year token >= 15 gives
\* ALOS_PALSAR_PLATFORMS[1] and ALOS_PALSAR_INSTRUMENTS[1], an earlier one
\* gives index 0 of both, so 15 itself is second generation and platform and
\* instrument are of one generation.
C1_PlatformByYear ==
    PlatformSet =>
        LET y == IntOf(params.year)
            g == IF y >= 15 THEN 2 ELSE 1
        IN  /\ Len(params.year) = 2
            /\ item[1].platform = ALOS_PALSAR_PLATFORMS[g]
            /\ item[1].instruments = <<ALOS_PALSAR_INSTRUMENTS[g]>>

C1_Witness ==
    /\ ItemReturned
    /\ params.year = <<"1", "5">>
    /\ item[1].platform = ALOS_PALSAR_PLATFORMS[2]
    /\ item[1].instruments = <<ALOS_PALSAR_INSTRUMENTS[2]>>

\* C2: in a returned Item every asset whose href does not end in .xml and
\* whose key is in the band table has one raster band whose nodata is, for a
\* year >= 17, 1 for HH, HV, linci, date and 0 for mask, C and any other
\* key, and for a year < 17, 0 for every key.
C2_NodataByYearAndBand ==
    ItemReturned =>
        \A i \in 1..Len(item[1].assets) :
            LET a == item[1].assets[i]
                y == IntOf(params.year)
            IN  (~EndsWith(a.href, Ext_xml) /\ a.key \in DOMAIN ALOS_BANDS) =>
                    /\ Len(a.bands) = 1
                    /\ a.bands[1].nodata =
                           IF y >= 17 /\ a.key \in {K_HH, K_HV, K_linci, K_date}
                           THEN 1 ELSE 0

C2_Witness ==
    /\ ItemReturned
    /\ IntOf(params.year) >= 17
    /\ \E i, j, k \in 1..Len(item[1].assets) :
           /\ item[1].assets[i].key = K_HH /\ item[1].assets[i].bands[1].nodata = 1
           /\ item[1].assets[j].key = K_VV /\ item[1].assets[j].bands[1].nodata = 0
           /\ item[1].assets[k].key = K_mask /\ item[1].assets[k].bands[1].nodata = 0

\* C3: the mapping create_item_from_href builds has exactly the keys {C} for
\* a _C.tif path, {HH, HV, VH, VV, linci, mask, date, metadata} for an .xml
\* path whose mode code has Q as fourth character and {HH, HV, linci, mask,
\* date, metadata} for any other .xml path; every sibling lies in the parent
\* directory of the metadata file and the metadata key maps to the input.
C3_GroupedKeysAndLocations ==
    (call = "create_item_from_href" /\ pc \notin {"create_item_from_href", "raised"}) =>
        LET filename == Basename(asset_href)
            code == RSplit1(SplitextRoot(filename), "_")
            keys == AssetKeys(assets_hrefs)
        IN  IF EndsWith(filename, Suffix_C_tif)
            THEN keys = {K_C}
            ELSE /\ keys = IF Len(code[Len(code)]) >= 4 /\ code[Len(code)][4] = "Q"
                           THEN {K_HH, K_HV, K_VH, K_VV, K_linci, K_mask, K_date, K_metadata}
                           ELSE {K_HH, K_HV, K_linci, K_mask, K_date, K_metadata}
                 /\ Len(assets_hrefs) = Cardinality(keys)
                 /\ \A i \in 1..Len(assets_hrefs) :
                        /\ ParentDir(assets_hrefs[i].value) = ParentDir(asset_href)
                        /\ assets_hrefs[i].key = K_metadata =>
                               assets_hrefs[i].value = asset_href

\* C4: create_item returns a mosaic Item only when the band-code segment is,
\* as a whole, one of F or U, two letters or digits, one of D or Q, one of A
\* or D, and one of R or L.
C4_ItemOnlyForExactCode ==
    (ItemReturned /\ ~params.is_fnf) =>
        LET seg == BandCodeSegment(params.filename)
            AlphaNum == WordChars \ {"_"}
        IN  /\ Len(seg) = 6
            /\ seg[1] \in {"F", "U"}
            /\ seg[2] \in AlphaNum
            /\ seg[3] \in AlphaNum
            /\ seg[4] \in {"D", "Q"}
            /\ seg[5] \in {"A", "D"}
            /\ seg[6] \in {"R", "L"}

\* C5: when the raster's CRS is not EPSG:4326 no Item is ever constructed or
\* returned: the call never gets past the CRS check, for FNF and mosaic
\* inputs alike.
C5_NoItemWithoutEpsg4326 ==
    (call # "create_collection" /\ crs # 4326) =>
        /\ item = <<>>
        /\ result = <<>>
        /\ pc \notin {"item", "platform", "sar", "assets", "returned"}

C5_Witness ==
    /\ crs # 4326
    /\ pc = "raised"
    /\ err = "ValueError: not EPSG:4326"
    /\ ~params.is_fnf
    /\ item = <<>>

\* C6: once the band-code segment has passed the parse, the parsed fields
\* mode, beam number, polarization count, orbit direction and observation
\* side, concatenated in that order, are the segment.
C6_DescriptorRoundTrip ==
    (call # "create_collection" /\ pc \in {"assets", "returned"} /\ ~params.is_fnf) =>
        params.m.MODE \o params.m.BEAM_NUMBER \o params.m.POLARIZATIONS
            \o params.m.ORBIT \o params.m.OBSERVATION
        = BandCodeSegment(params.filename)

\* C7: create_collection returns alos-fnf-mosaic for the selector FNF and
\* alos-palsar-mosaic, with the radar summary fields, for the selector MOS;
\* a selector that is neither ends in an error and in no collection.
C7_CollectionBySelector ==
    (call = "create_collection" /\ pc # "create_collection") =>
        IF product = "FNF"
        THEN /\ result = <<CollectionOf("FNF")>>
             /\ result[1].id = "alos-fnf-mosaic"
             /\ result[1].summaries = {"platform", "instruments"}
        ELSE IF product = "MOS"
        THEN /\ result[1].id = "alos-palsar-mosaic"
             /\ {"sar:observation_direction", "sar:instrument_mode", "sar:polarizations",
                 "sat:orbit_state", "palsar:number_of_polarizations"}
                    \subseteq result[1].summaries
        ELSE /\ pc = "raised"
             /\ result = <<>>

\* the part of C8 that does not depend on the platform: six assets in the
\* order date, linci, mask, HH, HV, metadata; year 15; mode F; dual
\* polarization; ascending orbit; right observation direction
C8_ExampleFields ==
    /\ [i \in 1..Len(item[1].assets) |-> item[1].assets[i].key]
           = <<K_date, K_linci, K_mask, K_HH, K_HV, K_metadata>>
    /\ assets_hrefs[6].value = asset_href
    /\ params.year = <<"1", "5">>
    /\ item[1].instrument_mode = <<"F">>
    /\ item[1].number_of_polarizations = <<"D">>
    /\ item[1].polarizations = ALOS_DUAL_POLARIZATIONS
    /\ item[1].orbit_state = "ascending"
    /\ item[1].observation_direction = "right"

C8_ExampleCall ==
    /\ call = "create_item_from_href"
    /\ asset_href = Path_N05E100_15_F02DAR_xml
    /\ crs = 4326

\* C8 as amended: for the metadata path N05E100_15_F02DAR.xml with an
\* EPSG:4326 raster the call returns an Item with the six assets date,
\* linci, mask, HH, HV, metadata, year 15, the second-generation platform,
\* mode F, dual polarization, ascending orbit, right observation direction.
C8_ExampleSecondGeneration ==
    C8_ExampleCall =>
        /\ pc # "raised"
        /\ ItemReturned =>
               /\ C8_ExampleFields
               /\ item[1].platform = ALOS_PALSAR_PLATFORMS[2]
               /\ item[1].instruments = <<ALOS_PALSAR_INSTRUMENTS[2]>>

C8_Witness ==
    /\ C8_ExampleCall
    /\ ItemReturned
    /\ C8_ExampleFields
    /\ item[1].platform = "ALOS-2"

\* C8 as stated: the same example, with the first-generation platform.
C8_ExampleFirstGeneration ==
    (C8_ExampleCall /\ ItemReturned) =>
        /\ C8_ExampleFields
        /\ item[1].platform = ALOS_PALSAR_PLATFORMS[1]

\* C9: whichever raster entry of a mosaic mapping comes first, the Item's id,
\* year and product kind are those obtained with the mapping in the order
\* create_item_from_href builds it, and the id is the name of the
\* observation (the filename without its band segment) followed by _MOS.
C9_IdIndependentOfFirstAsset ==
    (call = "create_item" /\ ItemReturned /\ ~params.is_fnf) =>
        LET meta == assets_hrefs[CHOOSE i \in 1..Len(assets_hrefs) :
                                     assets_hrefs[i].key = K_metadata].value
            built == FirstAssetParams(GroupAssets(meta).assets_hrefs)
        IN  /\ item[1].id = built.item_root \o Suffix_MOS
            /\ item[1].id = Basename(SplitextRoot(meta)) \o Suffix_MOS
            /\ params.year = built.year
            /\ params.is_fnf = built.is_fnf

\* C10: in a mosaic Item returned by create_item_from_href the polarization
\* list is the quad list exactly when the VH and VV assets are present and
\* the dual list exactly when the SAR band assets are HH and HV only.
C10_PolarizationsAgreeWithAssets ==
    (call = "create_item_from_href" /\ ItemReturned /\ ~params.is_fnf) =>
        LET sar_keys == AssetKeys(item[1].assets) \cap {K_HH, K_HV, K_VH, K_VV}
        IN  /\ item[1].polarizations = ALOS_QUAD_POLARIZATIONS
                <=> {K_VH, K_VV} \subseteq sar_keys
            /\ item[1].polarizations = ALOS_DUAL_POLARIZATIONS
                <=> sar_keys = {K_HH, K_HV}

====
